---- MODULE Spec2Model ----
(***************************************************************************)
(* A model of src/C++/Compression.h: the run-length codec (namespace RLE)  *)
(* and the Huffman codec (namespace Huffman, class detail::HuffmanTree).   *)
(*                                                                         *)
(* Words are kept as signed integers of a given bit width, exactly as the  *)
(* element type (stype / WordT) of the code; every conversion between the  *)
(* signed element type, its unsigned counterpart (utype) and int is        *)
(* written out, so that a conversion is never the identity by fiat.        *)
(*                                                                         *)
(* The module also models src/C++/Logging.h: the class LOG, its singleton  *)
(* LOG::Log with the table of active identifiers, and the threads calling  *)
(* it, each call cut at the acquisitions and releases of the mutex.        *)
(***************************************************************************)
EXTENDS Integers, Sequences, FiniteSets, TLC

(***************************************************************************)
(* Bounds of the model.                                                    *)
(***************************************************************************)
\* Bit width of the narrow word type (it stands for int8_t / int16_t).
W == 3
\* Longest input sequence.
MaxLen == 5
\* Words Huffman::decompress is followed for, beyond the length of the input.
MaxExtra == 2
\* Longest output the model follows Huffman::decompress to.
MaxOut == MaxLen + MaxExtra

\* Bit width of char in the model of Logging.h (it stands for 8): the table
\* `bool active[256]` has 2^CharBits entries.
CharBits == 2
\* Threads calling LOG at the same time.
NumThreads == 2
\* Calls of LOG's functions a run makes in all.
MaxCalls == 3
\* Longest list of identifiers handed to LOG::write.
MaxIds == 2

\* Width of int in the scaled-down arithmetic: wider than the narrow word.
IntBits == W + 1
\* A word type wider than int (it stands for int64_t where int has 32 bits).
WideBits == 2 * IntBits
\* The element types the templates are instantiated with.
WordWidths == {W, IntBits, WideBits}

(***************************************************************************)
(* Fixed-width integer arithmetic.                                         *)
(***************************************************************************)
RECURSIVE Pow2(_)
Pow2(n) == IF n = 0 THEN 1 ELSE 2 * Pow2(n - 1)

\* Conversion of an integer to the unsigned type of b bits (modular).
ToUnsigned(v, b) == v % Pow2(b)

\* Conversion of an integer to the signed type of b bits (two's complement).
ToSigned(v, b) ==
    LET u == v % Pow2(b)
    IN  IF u >= Pow2(b - 1) THEN u - Pow2(b) ELSE u

RECURSIVE BitAnd(_, _)
BitAnd(a, b) ==
    IF a = 0 \/ b = 0 THEN 0
    ELSE (a % 2) * (b % 2) + 2 * BitAnd(a \div 2, b \div 2)

RECURSIVE BitOr(_, _)
BitOr(a, b) ==
    IF a = 0 THEN b
    ELSE IF b = 0 THEN a
    ELSE (IF a % 2 = 1 \/ b % 2 = 1 THEN 1 ELSE 0) + 2 * BitOr(a \div 2, b \div 2)

\* Width in which a binary operator on a b-bit operand and an operand of the
\* unsigned b-bit type is evaluated (integer promotion to int for narrow types).
OpBits(b) == IF b < IntBits THEN IntBits ELSE b

\* The values `1 << n` can take, the literal 1 being an int.  For n below the
\* width of int the result is the int with bit n set.  For n >= the width of
\* int the shift is undefined: a build folds it to 0, or shifts by n modulo the
\* width of int as the shift instruction does.
ShiftLeftOne(n) ==
    IF n < IntBits THEN {ToSigned(Pow2(n), IntBits)}
    ELSE {0, ToSigned(Pow2(n % IntBits), IntBits)}

\* const utype MSB = 1 << (std::numeric_limits<utype>::digits - 1);
MSBValues(b) == {ToUnsigned(v, b) : v \in ShiftLeftOne(b - 1)}

\* const utype MAX_COUNT = std::numeric_limits<utype>::max() >> 1;
MAX_COUNT(b) == (Pow2(b) - 1) \div 2

\* One instantiation of the templates in one build: the width of the element
\* type and the value the build gives the constant MSB.
Builds == UNION {{[bits |-> b, msb |-> m] : m \in MSBValues(b)} : b \in WordWidths}

\* The words the inputs are drawn from, for a b-bit element type: two words
\* with the top bit clear and two with it set (-1 has every bit set, the
\* minimum has only the top bit set).
Symbols(b) == {0, 1, -1, -Pow2(b - 1)}

\* All sequences over S with at most n elements.
SeqsUpTo(S, n) == UNION {[1..k -> S] : k \in 0..n}

\* Runs of one word that reach and pass MAX_COUNT (up to two full runs and one
\* more repeat), for the element types whose MAX_COUNT a sequence in memory
\* can reach: those no wider than int.
LongRuns(b) ==
    IF b > IntBits THEN {}
    ELSE {[i \in 1..n |-> s] : n \in MAX_COUNT(b)..(2 * MAX_COUNT(b) + 1),
                                s \in Symbols(b)}

\* Scenario 1 of the specification (8-bit words, input 5,5,5,5,2,2,9) for a
\* b-bit element type: where 5 or 9 is not a b-bit word with a clear top bit,
\* or 4 repeats exceed MAX_COUNT, the scenario is scaled down to the largest
\* values that are.
Scenario1First(b) == IF 5 < Pow2(b - 1) THEN 5 ELSE 1
Scenario1Last(b) == IF 9 < Pow2(b - 1) THEN 9 ELSE Pow2(b - 1) - 1
Scenario1Run(b) == IF MAX_COUNT(b) >= 4 THEN 4 ELSE MAX_COUNT(b)
Scenario1(b) ==
    [i \in 1..Scenario1Run(b) |-> Scenario1First(b)] \o <<2, 2, Scenario1Last(b)>>

\* Scenario 2 of the specification: the arrangements of 10 symbols of which 5
\* are a, 3 are b and 2 are c.
Scenario2(a, b, c) ==
    UNION {{[i \in 1..10 |-> IF i \in PA THEN a ELSE IF i \in PB THEN b ELSE c]
            : PB \in {Q \in SUBSET ((1..10) \ PA) : Cardinality(Q) = 3}}
           : PA \in {P \in SUBSET (1..10) : Cardinality(P) = 5}}

\* The words the token streams handed to RLE::decompress are made of, for a
\* b-bit element type: two literals and the count markers for 0, 1 and 2.
TokenWords(b) == {0, 1} \cup {ToSigned(Pow2(b - 1) + c, b) : c \in 0..2}

VARIABLES
    pc,          \* position of the caller: "start", "encoded" and "decoded"
                 \* (RLE), "compressed", "decoding" and "decompressed"
                 \* (Huffman), "undefined" after undefined behaviour
    build,       \* the instantiation (element width, value of MSB)
    input,       \* the sequence handed to compress
    encoded,     \* RLE::compress's result
    decoded,     \* RLE::decompress's result
    endRead,     \* an element at or past the end of a range was read
    outcome,     \* "ok", or what the undefined behaviour turned into
    tree,        \* Huffman::compress: huffman_tree.root
    code,        \* Huffman::compress: huffman_tree.code
    compressed,  \* Huffman::compress's result
    stream,      \* the bits [begin, end) handed to Huffman::decompress
    rtree,       \* Huffman::decompress: huffman_tree.root
    rcode,       \* Huffman::decompress: huffman_tree.code
    cursor,      \* Huffman::decompress: begin, as an index into stream
    decompressed, \* Huffman::decompress: the vector decompressed
    charSigned,  \* the build: whether char is a signed type
    threads,     \* the threads that call LOG
    inst,        \* LOG::Log::inst: 0 for nullptr, else the number of the instance
    constructed, \* how many times `new Log()` has run
    active,      \* inst->active, index -> bool; empty while no instance exists
    mutex,       \* LOG::Log::m: 0 when free, else the thread holding it
    os,          \* the stream: for each line written, the thread that wrote it
    thr,         \* for each thread its position and the call it is in
    calls,       \* number of calls of LOG's functions begun so far
    lastCall,    \* per identifier: the last of LOG::activate / LOG::deactivate
                 \* that has returned, "none" if neither has
    logUB,       \* "ok", or what an access outside the table turned into
    covered,     \* per thread: since its call began, at every moment one of
                 \* the call's identifiers has been active
    memory,      \* the Node objects made by `new Node`, in order of creation;
                 \* a node's address is its index, 0 is nullptr
    deletes,     \* per address, how many times `delete` has run on it
    roots,       \* the HuffmanTree objects alive inside Huffman::decompress
                 \* ("tree", "res", "huffman_tree"), each with its root
    lifetime     \* how far the objects of Huffman::decompress have got

rleVars == <<encoded, decoded>>
huffVars == <<tree, code, compressed, stream, rtree, rcode, cursor, decompressed>>
heapVars == <<memory, deletes, roots, lifetime>>
codecVars == <<pc, build, input, endRead, outcome, rleVars, huffVars, heapVars>>
logVars == <<charSigned, threads, inst, constructed, active, mutex, os, thr, calls,
             lastCall, logUB, covered>>
vars == <<pc, build, input, endRead, outcome, rleVars, huffVars, heapVars, logVars>>

\* What a run that has executed undefined behaviour can end in.
UBOutcomes == {"crash", "garbage"}

(***************************************************************************)
(* namespace RLE                                                           *)
(***************************************************************************)
\* `x & MSB` for x of the element type: nonzero or not.
HasMSB(x, bld) == BitAnd(ToUnsigned(x, OpBits(bld.bits)), bld.msb) # 0

\* Lines 43-48 (and again 55-60): store the pending run.
StoreRun(enc, count, last_element, bld) ==
    IF count = 1 /\ ~HasMSB(last_element, bld)
    THEN Append(enc, last_element)
    ELSE enc \o <<ToSigned(BitOr(bld.msb, count), bld.bits), last_element>>

\* CompressLoop with the run cut one repeat late (count > MAX_COUNT).
RECURSIVE CompressLoopCutLate(_, _, _, _, _, _)
CompressLoopCutLate(S, it, count, last_element, enc, bld) ==
    IF it > Len(S) THEN StoreRun(enc, count, last_element, bld)
    ELSE IF S[it] # last_element \/ count > MAX_COUNT(bld.bits)
         THEN CompressLoopCutLate(S, it + 1, 0 + 1, S[it],
                                  StoreRun(enc, count, last_element, bld), bld)
         ELSE CompressLoopCutLate(S, it + 1, count + 1, last_element, enc, bld)

\* The for loop of lines 39-53, it being the index of the element *it, and
\* the final store of lines 55-60 once it = end.
RECURSIVE CompressLoop(_, _, _, _, _, _)
CompressLoop(S, it, count, last_element, enc, bld) ==
    IF it > Len(S) THEN StoreRun(enc, count, last_element, bld)
    ELSE IF S[it] # last_element \/ count = MAX_COUNT(bld.bits)
         THEN CompressLoop(S, it + 1, 0 + 1, S[it],
                           StoreRun(enc, count, last_element, bld), bld)
         ELSE CompressLoop(S, it + 1, count + 1, last_element, enc, bld)

\* The pending runs the loop of lines 39-53 and the final store of lines 55-60
\* hand to the store, in order: the values of count and last_element at each
\* execution of `if (count == 1 && !(last_element & MSB))`.
RECURSIVE PendingRuns(_, _, _, _, _, _)
PendingRuns(S, it, count, last_element, runs, bld) ==
    LET pending == [count |-> count, last_element |-> last_element]
    IN  IF it > Len(S) THEN Append(runs, pending)
        ELSE IF S[it] # last_element \/ count = MAX_COUNT(bld.bits)
             THEN PendingRuns(S, it + 1, 0 + 1, S[it], Append(runs, pending), bld)
             ELSE PendingRuns(S, it + 1, count + 1, last_element, runs, bld)

\* RLE::compress on a nonempty range: count = 1, last_element = *begin,
\* it = begin + 1.
compress(S, bld) == CompressLoop(S, 2, 1, S[1], <<>>, bld)

\* The while loop of RLE::decompress.  A count marker in the last position
\* makes the loop read *it with it = end (or step past end when the count is
\* 0): endRead records it and the result is whatever was decoded so far.
RECURSIVE DecompressLoop(_, _, _, _)
DecompressLoop(T, it, out, bld) ==
    IF it > Len(T) THEN [decoded |-> out, endRead |-> FALSE]
    ELSE IF HasMSB(T[it], bld)
         THEN LET count == ToUnsigned(T[it] - bld.msb, bld.bits)
              IN  IF it + 1 > Len(T)
                  THEN [decoded |-> out, endRead |-> TRUE]
                  ELSE DecompressLoop(T, it + 2,
                                      out \o [i \in 1..count |-> T[it + 1]], bld)
         ELSE DecompressLoop(T, it + 1, Append(out, T[it]), bld)

decompress(T, bld) == DecompressLoop(T, 1, <<>>, bld)

\* A call of RLE::compress(input.begin(), input.end()).  On an empty range
\* line 36 reads *begin with begin = end and line 39 starts at end + 1:
\* undefined behaviour, no check and no error value exists.
RLECompress ==
    /\ pc = "start"
    /\ IF input = <<>>
       THEN /\ endRead' = TRUE
            /\ outcome' \in UBOutcomes
            /\ encoded' \in IF outcome' = "crash" THEN {<<>>}
                             ELSE {<<w>> : w \in Symbols(build.bits)}
            /\ pc' = "undefined"
       ELSE /\ encoded' = compress(input, build)
            /\ pc' = "encoded"
            /\ UNCHANGED <<endRead, outcome>>
    /\ UNCHANGED <<build, input, decoded, huffVars, logVars, heapVars>>

\* A call of RLE::decompress(encoded.begin(), encoded.end()).
RLEDecompress ==
    /\ pc = "encoded"
    /\ LET r == decompress(encoded, build)
       IN  /\ decoded' = r.decoded
           /\ endRead' = r.endRead
           /\ outcome' \in IF r.endRead THEN UBOutcomes ELSE {"ok"}
           /\ pc' = IF r.endRead THEN "undefined" ELSE "decoded"
    /\ UNCHANGED <<build, input, encoded, huffVars, logVars, heapVars>>

(***************************************************************************)
(* namespace Huffman: detail::HuffmanTree                                  *)
(***************************************************************************)
nullptr == <<>>

\* Node(uint64_t f, WordT d): a node without children.
NewLeaf(f, d) == [frequency |-> f, data |-> d, left |-> nullptr, right |-> nullptr]

\* NewNode with the frequency of the left child in place of f.
NewNodeLeftFrequency(f, l, r) ==
    [frequency |-> l.frequency, data |-> 0, left |-> l, right |-> r]

\* Node(uint64_t f, Node* l, Node* r): data is WordT().
NewNode(f, l, r) == [frequency |-> f, data |-> 0, left |-> l, right |-> r]

isLeaf(node) == node.left = nullptr /\ node.right = nullptr

\* makeFrequencyTable: word -> number of occurrences, for the words that occur.
makeFrequencyTable(S) ==
    [w \in {S[i] : i \in 1..Len(S)} |-> Cardinality({i \in 1..Len(S) : S[i] = w})]

\* NodePtrCmpGreater with the comparison turned round (a max-heap).
NodePtrCmpLess(a, b) == a.frequency < b.frequency

\* NodePtrCmpGreater: a comes after b in the heap's order.
NodePtrCmpGreater(a, b) == a.frequency > b.frequency

\* HeapTops for a queue that hands out its nodes in no particular order.
HeapTopsAny(heap) == heap

\* The nodes heap.top() may return: those no other node is ordered before.
\* Which of several nodes of equal frequency is on top is the heap's choice.
HeapTops(heap) == {n \in heap : \A m \in heap : ~NodePtrCmpGreater(n, m)}

\* The while loop of makeTree, from the heap it starts with to the root it
\* ends with, for every way the heap may order nodes of equal frequency.
RECURSIVE MergeLoop(_)
MergeLoop(heap) ==
    IF Cardinality(heap) <= 1 THEN heap
    ELSE UNION {UNION {MergeLoop(((heap \ {min1}) \ {min2}) \cup
                                 {NewNode(min1.frequency + min2.frequency, min1, min2)})
                       : min2 \in HeapTops(heap \ {min1})}
                : min1 \in HeapTops(heap)}

\* makeTree on a nonempty range: the roots it can end with.
makeTree(S) ==
    LET freq_table == makeFrequencyTable(S)
    IN  MergeLoop({NewLeaf(freq_table[w], w) : w \in DOMAIN freq_table})

\* code.insert(...): an entry is added only if the key is not yet present.
InsertAll(c1, c2) == [w \in DOMAIN c1 \cup DOMAIN c2 |->
                        IF w \in DOMAIN c1 THEN c1[w] ELSE c2[w]]

\* makeCode with the right edge encoded as a 0, like the left one.
RECURSIVE makeCodeRightAsLeft(_, _, _)
makeCodeRightAsLeft(node, path, length) ==
    IF isLeaf(node)
    THEN [w \in {node.data} |-> <<path, IF length > 1 THEN length ELSE 1>>]
    ELSE InsertAll(makeCodeRightAsLeft(node.left, 2 * path, length + 1),
                   makeCodeRightAsLeft(node.right, 2 * path, length + 1))

\* makeCode with the left edge encoded as a 1 and the right edge as a 0.
RECURSIVE makeCodeLeftAsOne(_, _, _)
makeCodeLeftAsOne(node, path, length) ==
    IF isLeaf(node)
    THEN [w \in {node.data} |-> <<path, IF length > 1 THEN length ELSE 1>>]
    ELSE InsertAll(makeCodeLeftAsOne(node.left, 2 * path + 1, length + 1),
                   makeCodeLeftAsOne(node.right, 2 * path, length + 1))

\* makeCode(node, path, length): the entries the traversal inserts, each
\* <<codeword, length>>.
RECURSIVE makeCode(_, _, _)
makeCode(node, path, length) ==
    IF isLeaf(node)
    THEN [w \in {node.data} |-> <<path, IF length > 1 THEN length ELSE 1>>]
    ELSE InsertAll(makeCode(node.left, 2 * path, length + 1),
                   makeCode(node.right, 2 * path + 1, length + 1))

\* x >> n for a signed x (arithmetic shift).
ShiftRight(x, n) == (x - (x % Pow2(n))) \div Pow2(n)

\* The bits of a codeword or of a word, most significant first:
\* for (bit = n - 1; bit >= 0; --bit) push_back((x >> bit) & 1).
BitsMSBFirst(x, n) == [k \in 1..n |-> ShiftRight(x, n - k) % 2]

\* treeRepr with the right subtree written before the left one.
RECURSIVE treeReprRightFirst(_, _)
treeReprRightFirst(node, bits) ==
    IF isLeaf(node)
    THEN <<1>> \o BitsMSBFirst(node.data, bits)
    ELSE <<0>> \o treeReprRightFirst(node.right, bits)
               \o treeReprRightFirst(node.left, bits)

\* treeRepr(node)
RECURSIVE treeRepr(_, _)
treeRepr(node, bits) ==
    IF isLeaf(node)
    THEN <<1>> \o BitsMSBFirst(node.data, bits)
    ELSE <<0>> \o treeRepr(node.left, bits) \o treeRepr(node.right, bits)

\* ReadWord with the bits taken least significant first.
RECURSIVE ReadWordLSBFirst(_, _, _, _, _)
ReadWordLSBFirst(B, cur, i, data, bits) ==
    IF i < 0 THEN data
    ELSE ReadWordLSBFirst(B, cur + 1, i - 1,
                          ToSigned(BitOr(ToUnsigned(data, OpBits(bits)),
                                         B[cur] * Pow2(bits - 1 - i)), bits),
                          bits)

\* for (i = bits_per_word - 1; i >= 0; --i) { data |= WordT(*tree) << i; ++tree; }
\* from the bit at index cur, the bit at index cur + k going to bit i - k.
RECURSIVE ReadWord(_, _, _, _, _)
ReadWord(B, cur, i, data, bits) ==
    IF i < 0 THEN data
    ELSE ReadWord(B, cur + 1, i - 1,
                  ToSigned(BitOr(ToUnsigned(data, OpBits(bits)), B[cur] * Pow2(i)), bits),
                  bits)

\* One subtree read at index cur (the framing bit, then a word or the two
\* children): the node, the index after it, and whether a bit at or past the
\* end of B was read on the way, after which nothing is known.
RECURSIVE ReconstructNode(_, _, _)
ReconstructNode(B, cur, bits) ==
    IF cur > Len(B) THEN [node |-> nullptr, next |-> cur, endRead |-> TRUE]
    ELSE IF B[cur] = 1
    THEN IF cur + bits > Len(B)
         THEN [node |-> nullptr, next |-> cur, endRead |-> TRUE]
         ELSE [node |-> NewLeaf(0, ReadWord(B, cur + 1, bits - 1, 0, bits)),
               next |-> cur + 1 + bits, endRead |-> FALSE]
    ELSE LET l == ReconstructNode(B, cur + 1, bits)
         IN  IF l.endRead THEN l
             ELSE LET r == ReconstructNode(B, l.next, bits)
                  IN  IF r.endRead THEN r
                      ELSE [node |-> [NewLeaf(0, 0) EXCEPT !.left = l.node,
                                                           !.right = r.node],
                            next |-> r.next, endRead |-> FALSE]

\* reconstructTree returning the iterator one bit too far.
reconstructTreeOneMore(B, cur, bits) ==
    [ReconstructNode(B, cur, bits) EXCEPT !.next = @ + 1]

\* reconstructTree(Iterator tree): the root.
reconstructTree(B, cur, bits) == ReconstructNode(B, cur, bits)

\* decode(data): the walk from the root to a leaf.
RECURSIVE DecodeWalk(_, _, _)
DecodeWalk(current_node, B, data) ==
    IF isLeaf(current_node)
    THEN [word |-> current_node.data, next |-> data, endRead |-> FALSE]
    ELSE IF data > Len(B)
         THEN [word |-> 0, next |-> data, endRead |-> TRUE]
         ELSE DecodeWalk(IF B[data] = 1 THEN current_node.right
                                        ELSE current_node.left, B, data + 1)

decode(root, B, data) == DecodeWalk(root, B, data)

\* Node::clone(): a new node with the same frequency and data whose children
\* are clones of the children.
RECURSIVE clone(_)
clone(node) ==
    [frequency |-> node.frequency,
     data      |-> node.data,
     left      |-> IF node.left # nullptr THEN clone(node.left) ELSE nullptr,
     right     |-> IF node.right # nullptr THEN clone(node.right) ELSE nullptr]

\* encode(word)
encode(c, word) == c[word]

\* EmitCodewords with the codewords written in front of what is there.
RECURSIVE EmitCodewordsInFront(_, _, _, _)
EmitCodewordsInFront(S, it, c, out) ==
    IF it > Len(S) THEN out
    ELSE EmitCodewordsInFront(S, it + 1, c,
                              BitsMSBFirst(encode(c, S[it])[1], encode(c, S[it])[2]) \o out)

\* The loop of Huffman::compress that appends the codeword of every word.
RECURSIVE EmitCodewords(_, _, _, _)
EmitCodewords(S, it, c, out) ==
    IF it > Len(S) THEN out
    ELSE EmitCodewords(S, it + 1, c,
                       out \o BitsMSBFirst(encode(c, S[it])[1], encode(c, S[it])[2]))

(***************************************************************************)
(* namespace Huffman: compress and decompress                              *)
(***************************************************************************)
\* A call of Huffman::compress(input.begin(), input.end()).  On an empty
\* range makeTree's heap stays empty and line 319 reads heap.top() of an
\* empty queue: undefined behaviour, no check and no error value exists.
HuffmanCompress ==
    /\ pc = "start"
    /\ IF input = <<>>
       THEN /\ endRead' = TRUE
            /\ outcome' \in UBOutcomes
            /\ compressed' \in IF outcome' = "crash" THEN {<<>>} ELSE {<<0>>, <<1>>}
            /\ pc' = "undefined"
            /\ UNCHANGED <<tree, code, stream>>
       ELSE /\ tree' \in makeTree(input)
            /\ code' = makeCode(tree', 0, 0)
            /\ compressed' = EmitCodewords(input, 1, code', treeRepr(tree', build.bits))
            /\ stream' = compressed'
            /\ pc' = "compressed"
            /\ UNCHANGED <<endRead, outcome>>
    /\ UNCHANGED <<build, input, rleVars, rtree, rcode, cursor, decompressed, logVars, heapVars>>

\* Huffman::decompress, lines 569-573: fromCompressed(begin) rebuilds the tree
\* and its code and returns the iterator after the tree.  The tree is copied
\* into the returned pair and copied again into huffman_tree, each copy
\* cloning the root and copying the code.
HuffmanFromCompressed ==
    /\ pc = "compressed"
    /\ LET res == reconstructTree(stream, 1, build.bits)
       IN  IF res.endRead
           THEN /\ endRead' = TRUE
                /\ outcome' \in UBOutcomes
                /\ pc' = "undefined"
                /\ UNCHANGED <<rtree, rcode, cursor>>
           ELSE /\ rtree' = clone(clone(res.node))
                /\ rcode' = makeCode(res.node, 0, 0)
                /\ cursor' = res.next
                /\ pc' = "decoding"
                /\ UNCHANGED <<endRead, outcome>>
    /\ UNCHANGED <<build, input, rleVars, tree, code, compressed, stream, decompressed,
                   logVars, heapVars>>

\* Huffman::decompress, lines 574-578: one iteration of while (begin != end).
HuffmanDecodeStep ==
    /\ pc = "decoding"
    /\ cursor # Len(stream) + 1
    /\ Len(decompressed) < MaxOut
    /\ LET res == decode(rtree, stream, cursor)
       IN  IF res.endRead
           THEN /\ endRead' = TRUE
                /\ outcome' \in UBOutcomes
                /\ pc' = "undefined"
                /\ UNCHANGED <<cursor, decompressed>>
           ELSE /\ decompressed' = Append(decompressed, res.word)
                /\ cursor' = res.next
                /\ UNCHANGED <<pc, endRead, outcome>>
    /\ UNCHANGED <<build, input, rleVars, tree, code, compressed, stream, rtree, rcode,
                   logVars, heapVars>>

\* Huffman::decompress, line 579: begin == end, the vector is returned.
HuffmanReturn ==
    /\ pc = "decoding"
    /\ cursor = Len(stream) + 1
    /\ pc' = "decompressed"
    /\ UNCHANGED <<build, input, endRead, outcome, rleVars, huffVars, logVars, heapVars>>

\* The caller hands decompress only the first k bits of the compressed data,
\* at least one and not all of them.
Truncate ==
    /\ pc = "compressed"
    /\ stream = compressed
    /\ \E k \in 1..(Len(compressed) - 1) : stream' = SubSeq(compressed, 1, k)
    /\ UNCHANGED <<pc, build, input, endRead, outcome, rleVars,
                   tree, code, compressed, rtree, rcode, cursor, decompressed, logVars, heapVars>>

(***************************************************************************)
(* HuffmanTree: the nodes as objects, their copies and their destruction   *)
(***************************************************************************)
\* No node has been created, no HuffmanTree object is alive.
HeapIdle ==
    /\ memory = <<>>
    /\ deletes = <<>>
    /\ roots = <<>>
    /\ lifetime = "none"

\* The nodes reconstructTree creates for the tree it reads (`new Node(0, 0)`
\* for the root, then the left subtree, then the right one), given as the
\* memory after the calls and the address of the root.
RECURSIVE ReconstructNodes(_, _)
ReconstructNodes(mem, node) ==
    LET new_node == Len(mem) + 1
        made == Append(mem, [frequency |-> node.frequency, data |-> node.data,
                             left |-> 0, right |-> 0])
        lhs == IF node.left # nullptr THEN ReconstructNodes(made, node.left)
                                      ELSE [memory |-> made, root |-> 0]
        rhs == IF node.right # nullptr THEN ReconstructNodes(lhs.memory, node.right)
                                       ELSE [memory |-> lhs.memory, root |-> 0]
    IN  [memory |-> [rhs.memory EXCEPT ![new_node].left = lhs.root,
                                       ![new_node].right = rhs.root],
         root   |-> new_node]

\* Node::clone() with the children of the original handed to the new node
\* instead of clones of them.
NodeCloneShallow(mem, p) ==
    [memory |-> Append(mem, mem[p]), root |-> Len(mem) + 1]

\* Node::clone() on the node at address p: a new node with the same frequency
\* and data, whose children are the clones of p's children.
RECURSIVE NodeClone(_, _)
NodeClone(mem, p) ==
    LET new_node == Len(mem) + 1
        made == Append(mem, [frequency |-> mem[p].frequency, data |-> mem[p].data,
                             left |-> 0, right |-> 0])
        lhs == IF mem[p].left # 0 THEN NodeClone(made, mem[p].left)
                                  ELSE [memory |-> made, root |-> 0]
        rhs == IF mem[p].right # 0 THEN NodeClone(lhs.memory, mem[p].right)
                                   ELSE [memory |-> lhs.memory, root |-> 0]
    IN  [memory |-> [rhs.memory EXCEPT ![new_node].left = lhs.root,
                                       ![new_node].right = rhs.root],
         root   |-> new_node]

\* `delete p`: ~Node() deletes the left and the right child, then the node
\* itself is freed.
RECURSIVE DeleteNode(_, _, _)
DeleteNode(del, mem, p) ==
    LET lhs == IF mem[p].left # 0 THEN DeleteNode(del, mem, mem[p].left) ELSE del
        rhs == IF mem[p].right # 0 THEN DeleteNode(lhs, mem, mem[p].right) ELSE lhs
    IN  [rhs EXCEPT ![p] = @ + 1]

\* The copy constructor HuffmanTree(const HuffmanTree&): root(other.root->clone()).
CopyConstruct(mem, other) == NodeClone(mem, roots[other])

\* ~HuffmanTree(): if (root) delete root.
Destroy(del, mem, name) ==
    IF roots[name] # 0 THEN DeleteNode(del, mem, roots[name]) ELSE del

\* The delete counts extended by the nodes created since.
Grown(del, mem) == [p \in 1..Len(mem) |-> IF p \in DOMAIN del THEN del[p] ELSE 0]

\* The HuffmanTree objects without the one called name.
Without(name) == [x \in DOMAIN roots \ {name} |-> roots[x]]

\* fromCompressed, lines 291-292: the local `tree` is built from the bits.
TreeReconstruct ==
    /\ pc = "compressed"
    /\ lifetime = "none"
    /\ LET res == reconstructTree(stream, 1, build.bits)
       IN  /\ ~res.endRead
           /\ LET made == ReconstructNodes(memory, res.node)
              IN  /\ memory' = made.memory
                  /\ deletes' = Grown(deletes, made.memory)
                  /\ roots' = ("tree" :> made.root)
    /\ lifetime' = "local"
    /\ UNCHANGED <<pc, build, input, endRead, outcome, rleVars, huffVars, logVars>>

\* fromCompressed, line 294: std::make_pair(tree, begin) copy-constructs the
\* pair's first member from the local tree.
PairCopy ==
    /\ lifetime = "local"
    /\ LET made == CopyConstruct(memory, "tree")
       IN  /\ memory' = made.memory
           /\ deletes' = Grown(deletes, made.memory)
           /\ roots' = roots @@ ("res" :> made.root)
    /\ lifetime' = "pair"
    /\ UNCHANGED <<pc, build, input, endRead, outcome, rleVars, huffVars, logVars>>

\* fromCompressed returns: its local tree is destroyed.
LocalDestroy ==
    /\ lifetime = "pair"
    /\ deletes' = Destroy(deletes, memory, "tree")
    /\ roots' = Without("tree")
    /\ lifetime' = "returned"
    /\ UNCHANGED <<memory, pc, build, input, endRead, outcome, rleVars, huffVars, logVars>>

\* Huffman::decompress, line 570: auto huffman_tree = res.first.
TreeCopy ==
    /\ lifetime = "returned"
    /\ LET made == CopyConstruct(memory, "res")
       IN  /\ memory' = made.memory
           /\ deletes' = Grown(deletes, made.memory)
           /\ roots' = roots @@ ("huffman_tree" :> made.root)
    /\ lifetime' = "copied"
    /\ UNCHANGED <<pc, build, input, endRead, outcome, rleVars, huffVars, logVars>>

\* Huffman::decompress returns: huffman_tree, declared last, is destroyed
\* first.
TreeDestroy ==
    /\ lifetime = "copied"
    /\ deletes' = Destroy(deletes, memory, "huffman_tree")
    /\ roots' = Without("huffman_tree")
    /\ lifetime' = "leaving"
    /\ UNCHANGED <<memory, pc, build, input, endRead, outcome, rleVars, huffVars, logVars>>

\* Huffman::decompress returns: res, and with it res.first, is destroyed.
PairDestroy ==
    /\ lifetime = "leaving"
    /\ deletes' = Destroy(deletes, memory, "res")
    /\ roots' = Without("res")
    /\ lifetime' = "done"
    /\ UNCHANGED <<memory, pc, build, input, endRead, outcome, rleVars, huffVars, logVars>>

(***************************************************************************)
(* class LOG (Logging.h)                                                   *)
(***************************************************************************)
\* The character codes of the identifiers the callers use: two codes with
\* the top bit clear and the code with every bit set (0xFF for 8 bits).
CharCodes == {0, 1, Pow2(CharBits) - 1}

\* The value of the char with character code c: the code itself where char
\* is unsigned, its two's complement reading where char is signed.
ToChar(c, signed) == IF signed THEN ToSigned(c, CharBits) ELSE c

\* bool active[256]: the indices of the table.
TableIndices == 0..(Pow2(CharBits) - 1)

\* Log::Log(): fill the table with false.
NewTable == [i \in TableIndices |-> FALSE]

\* The lists of identifiers handed to LOG::write.
IdLists == SeqsUpTo(CharCodes, MaxIds)

\* A thread outside any call of LOG.
NoCall == [pc |-> "idle", op |-> "none", ids |-> <<>>, i |-> 1, wrote |-> 0]

\* The calls a thread can make: LOG::write(message, os), LOG::write(message,
\* os, identifier), LOG::write(message, os, identifiers), LOG::activate(
\* identifier), LOG::deactivate(identifier).
Calls ==
    {[op |-> "write", ids |-> <<>>]}
    \cup {[op |-> o, ids |-> <<c>>] : o \in {"write_id", "activate", "deactivate"},
                                      c \in CharCodes}
    \cup {[op |-> "write_ids", ids |-> l] : l \in IdLists}

\* One of the identifiers ids is active in the table: its flag is set.  No
\* identifier is active while no instance exists.
SomeActive(ids, table) ==
    \E k \in DOMAIN ids :
       /\ ToChar(ids[k], charSigned) \in DOMAIN table
       /\ table[ToChar(ids[k], charSigned)]

\* A thread enters one of LOG's functions.  Each of them starts with
\* Log::instance(), except LOG::write with an empty list, whose loop body
\* never runs.
LogCall(t) ==
    /\ logUB # "crash"
    /\ t \in threads
    /\ thr[t].pc = "idle"
    /\ calls < MaxCalls
    /\ \E c \in Calls :
         /\ thr' = [thr EXCEPT ![t] =
                      [pc |-> IF c.op = "write_ids" /\ c.ids = <<>> THEN "return"
                              ELSE "instance",
                       op |-> c.op, ids |-> c.ids, i |-> 1, wrote |-> 0]]
         /\ covered' = [covered EXCEPT ![t] = c.op = "write_ids"
                                               /\ SomeActive(c.ids, active)]
    /\ calls' = calls + 1
    /\ UNCHANGED <<charSigned, threads, inst, constructed, active, mutex, os, lastCall, logUB,
                   codecVars>>

\* InstanceLock without the wait for the mutex to be free.
InstanceLockNoWait(t) ==
    /\ logUB # "crash"
    /\ thr[t].pc = "instance"
    /\ mutex' = t
    /\ thr' = [thr EXCEPT ![t].pc = "check"]
    /\ UNCHANGED <<charSigned, threads, inst, constructed, active, os, calls, lastCall, logUB,
                   covered, codecVars>>

\* Log::instance(), line 72: the lock_guard locks m, waiting while another
\* thread holds it.
InstanceLock(t) ==
    /\ logUB # "crash"
    /\ thr[t].pc = "instance"
    /\ mutex = 0
    /\ mutex' = t
    /\ thr' = [thr EXCEPT ![t].pc = "check"]
    /\ UNCHANGED <<charSigned, threads, inst, constructed, active, os, calls, lastCall, logUB,
                   covered, codecVars>>

\* Log::instance(), line 73: if (!inst); with an instance, line 75 returns it
\* and the lock_guard unlocks m.
InstanceCheck(t) ==
    /\ logUB # "crash"
    /\ thr[t].pc = "check"
    /\ IF inst = 0
       THEN /\ thr' = [thr EXCEPT ![t].pc = "construct"]
            /\ UNCHANGED mutex
       ELSE /\ thr' = [thr EXCEPT ![t].pc = "op"]
            /\ mutex' = 0
    /\ UNCHANGED <<charSigned, threads, inst, constructed, active, os, calls, lastCall, logUB,
                   covered, codecVars>>

\* Log::instance(), lines 74-75: inst = new Log(), whose constructor fills the
\* table with false; the instance is returned and the lock_guard unlocks m.
InstanceConstruct(t) ==
    /\ logUB # "crash"
    /\ thr[t].pc = "construct"
    /\ constructed' = constructed + 1
    /\ inst' = constructed'
    /\ active' = NewTable
    /\ mutex' = 0
    /\ thr' = [thr EXCEPT ![t].pc = "op"]
    /\ UNCHANGED <<charSigned, threads, os, calls, lastCall, logUB,
                   covered, codecVars>>

\* Log::log, Log::activate, Log::deactivate, first line: the lock_guard locks
\* m, waiting while another thread holds it.
OpLock(t) ==
    /\ logUB # "crash"
    /\ thr[t].pc = "op"
    /\ mutex = 0
    /\ mutex' = t
    /\ thr' = [thr EXCEPT ![t].pc = "body"]
    /\ UNCHANGED <<charSigned, threads, inst, constructed, active, os, calls, lastCall, logUB,
                   covered, codecVars>>

\* The identifier the call is at.
Identifier(t) == ToChar(thr[t].ids[thr[t].i], charSigned)

\* Log::log(message, os): the line is written, true is returned, and the
\* lock_guard unlocks m.
LogAlways(t) ==
    /\ logUB # "crash"
    /\ thr[t].pc = "body"
    /\ thr[t].op = "write"
    /\ os' = Append(os, t)
    /\ mutex' = 0
    /\ thr' = [thr EXCEPT ![t].pc = "return", ![t].wrote = @ + 1]
    /\ UNCHANGED <<charSigned, threads, inst, constructed, active, calls, lastCall, logUB,
                   covered, codecVars>>

\* Log::log(message, os, identifier): if (active[identifier]) the line is
\* written and true returned, else false; the lock_guard unlocks m.  The char
\* is the index as it is: a negative identifier reads memory in front of the
\* table, which is undefined and gives a crash or whatever byte is there.
\* LOG::write with one identifier then returns; with a list (lines 150-153)
\* it returns after a true or the last identifier, else goes on with the
\* next identifier.
LogIfActive(t) ==
    /\ logUB # "crash"
    /\ thr[t].pc = "body"
    /\ thr[t].op \in {"write_id", "write_ids"}
    /\ \E is_active \in BOOLEAN :
         /\ IF Identifier(t) \in TableIndices
            THEN /\ is_active = active[Identifier(t)]
                 /\ UNCHANGED logUB
            ELSE /\ logUB' \in UBOutcomes
                 /\ logUB' = "crash" => ~is_active
         /\ os' = IF is_active THEN Append(os, t) ELSE os
         /\ thr' = [thr EXCEPT
                      ![t].wrote = IF is_active THEN @ + 1 ELSE @,
                      ![t].pc = IF is_active \/ thr[t].i >= Len(thr[t].ids)
                                THEN "return" ELSE "instance",
                      ![t].i = IF is_active \/ thr[t].i >= Len(thr[t].ids)
                               THEN @ ELSE @ + 1]
    /\ mutex' = 0
    /\ UNCHANGED <<charSigned, threads, inst, constructed, active, calls, lastCall,
                   covered, codecVars>>

\* Log::activate(identifier) and Log::deactivate(identifier):
\* active[identifier] = true (false), then the lock_guard unlocks m.  A
\* negative identifier writes to memory in front of the table: undefined, the
\* table itself stays as it is.
SetActive(t) ==
    /\ logUB # "crash"
    /\ thr[t].pc = "body"
    /\ thr[t].op \in {"activate", "deactivate"}
    /\ IF Identifier(t) \in TableIndices
       THEN /\ active' = [active EXCEPT ![Identifier(t)] = (thr[t].op = "activate")]
            /\ UNCHANGED logUB
       ELSE /\ logUB' \in UBOutcomes
            /\ UNCHANGED active
    /\ mutex' = 0
    /\ thr' = [thr EXCEPT ![t].pc = "return"]
    /\ covered' = [u \in 1..NumThreads |->
                     covered[u] /\ SomeActive(thr[u].ids, active')]
    /\ UNCHANGED <<charSigned, threads, inst, constructed, os, calls, lastCall,
                   codecVars>>

\* The function of LOG returns to its caller.
LogReturn(t) ==
    /\ logUB # "crash"
    /\ thr[t].pc = "return"
    /\ lastCall' = IF thr[t].op \in {"activate", "deactivate"}
                   THEN [lastCall EXCEPT ![thr[t].ids[1]] = thr[t].op]
                   ELSE lastCall
    /\ thr' = [thr EXCEPT ![t] = NoCall]
    /\ covered' = [covered EXCEPT ![t] = FALSE]
    /\ UNCHANGED <<charSigned, threads, inst, constructed, active, mutex, os, calls, logUB,
                   codecVars>>

(***************************************************************************)
(* Specifications                                                          *)
(***************************************************************************)
\* The codecs before any call: nothing built, nothing produced.
CodecsIdle ==
    /\ pc = "start"
    /\ endRead = FALSE
    /\ outcome = "ok"
    /\ encoded = <<>>
    /\ decoded = <<>>
    /\ tree = nullptr
    /\ code = <<>>
    /\ compressed = <<>>
    /\ stream = <<>>
    /\ rtree = nullptr
    /\ rcode = <<>>
    /\ cursor = 1
    /\ decompressed = <<>>
    /\ HeapIdle

\* Logging.h before any call: no instance, the mutex free, nothing written.
LogStart ==
    /\ inst = 0
    /\ constructed = 0
    /\ active = <<>>
    /\ mutex = 0
    /\ os = <<>>
    /\ thr = [t \in 1..NumThreads |-> NoCall]
    /\ calls = 0
    /\ lastCall = [c \in CharCodes |-> "none"]
    /\ logUB = "ok"
    /\ covered = [t \in 1..NumThreads |-> FALSE]

\* A program that does not call LOG.
NoLogging ==
    /\ charSigned = TRUE
    /\ threads = {}
    /\ LogStart

NothingYet == CodecsIdle /\ NoLogging

\* RLE: every instantiation, every input of at most MaxLen words, the long
\* runs and scenario 1.
RLEInit ==
    /\ build \in Builds
    /\ input \in SeqsUpTo(Symbols(build.bits), MaxLen) \cup LongRuns(build.bits)
                 \cup {Scenario1(build.bits)}
    /\ NothingYet

RLENext == RLECompress \/ RLEDecompress

SpecRLE == RLEInit /\ [][RLENext]_vars

\* RLE::decompress called on a token stream of the caller's, of at most
\* MaxLen words, in every instantiation.
TokensInit ==
    /\ build \in Builds
    /\ input = <<>>
    /\ encoded \in SeqsUpTo(TokenWords(build.bits), MaxLen)
    /\ pc = "encoded"
    /\ endRead = FALSE
    /\ outcome = "ok"
    /\ decoded = <<>>
    /\ tree = nullptr
    /\ code = <<>>
    /\ compressed = <<>>
    /\ stream = <<>>
    /\ rtree = nullptr
    /\ rcode = <<>>
    /\ cursor = 1
    /\ decompressed = <<>>
    /\ HeapIdle
    /\ NoLogging

TokensNext == RLEDecompress

SpecRLETokens == TokensInit /\ [][TokensNext]_vars

\* Huffman: the narrow instantiation, every input of at most MaxLen words.
HuffmanInit ==
    /\ build \in {b \in Builds : b.bits = W}
    /\ input \in SeqsUpTo(Symbols(build.bits), MaxLen)
    /\ NothingYet

HuffmanNext ==
    \/ HuffmanCompress
    \/ HuffmanFromCompressed
    \/ HuffmanDecodeStep
    \/ HuffmanReturn

SpecHuffman == HuffmanInit /\ [][HuffmanNext]_vars

\* Huffman::compress, then the HuffmanTree objects Huffman::decompress makes
\* of its result, from their construction to their destruction.
CopiesNext ==
    \/ HuffmanCompress
    \/ TreeReconstruct
    \/ PairCopy
    \/ LocalDestroy
    \/ TreeCopy
    \/ TreeDestroy
    \/ PairDestroy

SpecCopies == HuffmanInit /\ [][CopiesNext]_vars

\* Huffman::decompress on a proper prefix of the compressed data.
TruncatedNext == HuffmanNext \/ Truncate

SpecTruncated == HuffmanInit /\ [][TruncatedNext]_vars

\* Huffman::compress on the inputs of scenario 2, the three symbols being any
\* three different words.
Scenario2Init ==
    /\ build \in {b \in Builds : b.bits = W}
    /\ \E a \in Symbols(build.bits) : \E b \in Symbols(build.bits) \ {a} :
         \E c \in Symbols(build.bits) \ {a, b} : input \in Scenario2(a, b, c)
    /\ NothingYet

Scenario2Next == HuffmanCompress

SpecScenario2 == Scenario2Init /\ [][Scenario2Next]_vars

\* A program that calls LOG and not the codecs.
CodecsUnused ==
    /\ build \in {b \in Builds : b.bits = W}
    /\ input = <<>>
    /\ CodecsIdle

\* The steps of thread t inside LOG.
LogStep(t) ==
    \/ LogCall(t)
    \/ InstanceLock(t)
    \/ InstanceCheck(t)
    \/ InstanceConstruct(t)
    \/ OpLock(t)
    \/ LogAlways(t)
    \/ LogIfActive(t)
    \/ SetActive(t)
    \/ LogReturn(t)

LogNext == \E t \in 1..NumThreads : LogStep(t)

\* LOG called by one thread, char signed or unsigned.
LogInit ==
    /\ charSigned \in BOOLEAN
    /\ threads = {1}
    /\ LogStart
    /\ CodecsUnused

SpecLog == LogInit /\ [][LogNext]_vars

\* LOG called by NumThreads threads at the same time.
LogThreadsInit ==
    /\ charSigned \in BOOLEAN
    /\ threads = 1..NumThreads
    /\ LogStart
    /\ CodecsUnused

SpecLogThreads == LogThreadsInit /\ [][LogNext]_vars

\* The identifiers that index the table: activating them is defined.
InTable == {c \in CharCodes : ToChar(c, charSigned) \in TableIndices}

\* LOG after earlier calls have returned: the instance exists and the
\* identifiers of some set have been activated.
LogPreparedInit ==
    /\ charSigned \in BOOLEAN
    /\ threads = 1..NumThreads
    /\ inst = 1
    /\ constructed = 1
    /\ \E on \in SUBSET InTable :
         /\ active = [i \in TableIndices |->
                        \E c \in on : ToChar(c, charSigned) = i]
         /\ lastCall = [c \in CharCodes |-> IF c \in on THEN "activate" ELSE "none"]
    /\ mutex = 0
    /\ os = <<>>
    /\ thr = [t \in 1..NumThreads |-> NoCall]
    /\ calls = 0
    /\ logUB = "ok"
    /\ covered = [t \in 1..NumThreads |-> FALSE]
    /\ CodecsUnused

\* The steps of thread t once the instance exists.
LogPreparedStep(t) ==
    \/ LogCall(t)
    \/ InstanceLock(t)
    \/ InstanceCheck(t)
    \/ OpLock(t)
    \/ LogAlways(t)
    \/ LogIfActive(t)
    \/ SetActive(t)
    \/ LogReturn(t)

LogPreparedNext == \E t \in 1..NumThreads : LogPreparedStep(t)

\* LOG called by NumThreads threads at the same time, after earlier calls.
SpecLogPrepared == LogPreparedInit /\ [][LogPreparedNext]_vars

\* Either codec called on the input (narrow instantiation).
Next == RLENext \/ HuffmanNext

Spec == HuffmanInit /\ [][Next]_vars

(***************************************************************************)
(* Vocabulary of the claims                                                *)
(***************************************************************************)
\* The distinct words of a sequence.
Distinct(S) == {S[i] : i \in 1..Len(S)}

IsPrefixOf(s, t) == Len(s) <= Len(t) /\ SubSeq(t, 1, Len(s)) = s

\* The codeword of w in code table c, as the bit string of its recorded length.
Codeword(c, w) == BitsMSBFirst(c[w][1], c[w][2])

\* The top bit of a b-bit word, the MSB of the wire format.
TopBit(b) == Pow2(b - 1)

\* The top bit of word x of a b-bit type is set.
TopBitSet(x, b) == ToUnsigned(x, b) >= TopBit(b)

\* T read from index i as tokens of the wire format: a word whose top bit is
\* set is a count marker and must be followed by a value word inside T.
RECURSIVE FramedByTopBit(_, _, _)
FramedByTopBit(T, i, b) ==
    IF i > Len(T) THEN TRUE
    ELSE IF TopBitSet(T[i], b)
         THEN i + 1 <= Len(T) /\ FramedByTopBit(T, i + 2, b)
         ELSE FramedByTopBit(T, i + 1, b)

\* The words the tokens of a framed T stand for: a count marker's count field
\* (the marker with its top bit cleared) copies of the word after it, a
\* literal once.
RECURSIVE TokenExpansion(_, _, _)
TokenExpansion(T, i, b) ==
    IF i > Len(T) THEN <<>>
    ELSE IF TopBitSet(T[i], b)
         THEN [k \in 1..(ToUnsigned(T[i], b) - TopBit(b)) |-> T[i + 1]]
              \o TokenExpansion(T, i + 2, b)
         ELSE <<T[i]>> \o TokenExpansion(T, i + 1, b)

\* The sum of the counts of the tokens of a framed T.
RECURSIVE TokenCountSum(_, _, _)
TokenCountSum(T, i, b) ==
    IF i > Len(T) THEN 0
    ELSE IF TopBitSet(T[i], b)
         THEN (ToUnsigned(T[i], b) - TopBit(b)) + TokenCountSum(T, i + 2, b)
         ELSE 1 + TokenCountSum(T, i + 1, b)

\* The input is n >= 1 repeats of one word.
Repeats(n) == Len(input) = n /\ n >= 1 /\ \A i \in 1..n : input[i] = input[1]

\* The run-token pair (MSB | count, symbol) of the wire format.
RunPair(count, symbol, b) == <<ToSigned(BitOr(TopBit(b), count), b), symbol>>

\* The concatenation of a sequence of sequences.
RECURSIVE Concat(_)
Concat(ss) == IF ss = <<>> THEN <<>> ELSE Head(ss) \o Concat(Tail(ss))

\* The pending runs of the call of RLE::compress on the input.
InputRuns == PendingRuns(input, 2, 1, input[1], <<>>, build)

\* The words RLE::compress appended for a pending run.
Emitted(run) == StoreRun(<<>>, run.count, run.last_element, build)

\* The token of the wire format for a pending run: the bare symbol for a run
\* of length 1 of a symbol whose top bit is clear, the run pair otherwise.
WireToken(run) ==
    IF run.count = 1 /\ ~TopBitSet(run.last_element, build.bits)
    THEN <<run.last_element>>
    ELSE RunPair(run.count, run.last_element, build.bits)

\* How often word w occurs in the input.
Occurrences(w) == Cardinality({i \in DOMAIN input : input[i] = w})

\* The input has 10 symbols with the frequencies 5, 3 and 2.
Frequencies532 ==
    /\ Len(input) = 10
    /\ {Occurrences(w) : w \in Distinct(input)} = {5, 3, 2}
    /\ Cardinality(Distinct(input)) = 3

\* The n binary digits of x >= 0 (taken modulo 2^n), most significant first.
Digits(x, n) == [k \in 1..n |-> (x \div Pow2(n - k)) % 2]

\* The b bits of the two's complement representation of word x, most
\* significant first.
WordBits(x, b) == Digits(ToUnsigned(x, b), b)

\* A node without children.
Childless(node) == node.left = nullptr /\ node.right = nullptr

\* The pre-order serialization of the specification: 1 and the symbol for a
\* Leaf, 0 and the two subtrees, left first, for an Internal node.
RECURSIVE PreOrder(_, _)
PreOrder(node, b) ==
    IF Childless(node)
    THEN <<1>> \o WordBits(node.data, b)
    ELSE <<0>> \o PreOrder(node.left, b) \o PreOrder(node.right, b)

\* The number of nodes without children of the tree below node.
RECURSIVE LeafCount(_)
LeafCount(node) ==
    IF node = nullptr THEN 0
    ELSE IF Childless(node) THEN 1
    ELSE LeafCount(node.left) + LeafCount(node.right)

\* The sum of the numbers of a sequence.
RECURSIVE Sum(_)
Sum(ns) == IF ns = <<>> THEN 0 ELSE Head(ns) + Sum(Tail(ns))

\* Every node of the tree below node has no child or two children.
RECURSIVE FullBinary(_)
FullBinary(node) ==
    \/ Childless(node)
    \/ /\ node.left # nullptr
       /\ node.right # nullptr
       /\ FullBinary(node.left)
       /\ FullBinary(node.right)

\* The number of nodes with a child of the tree below node.
RECURSIVE InternalCount(_)
InternalCount(node) ==
    IF node = nullptr \/ Childless(node) THEN 0
    ELSE 1 + InternalCount(node.left) + InternalCount(node.right)

\* The leaves of a full binary tree, as <<symbol, frequency>> pairs.
RECURSIVE LeafSet(_)
LeafSet(node) ==
    IF Childless(node) THEN {<<node.data, node.frequency>>}
    ELSE LeafSet(node.left) \cup LeafSet(node.right)

\* In a full binary tree every node with children has the sum of their
\* frequencies as its frequency.
RECURSIVE FrequenciesAddUp(_)
FrequenciesAddUp(node) ==
    \/ Childless(node)
    \/ /\ node.frequency = node.left.frequency + node.right.frequency
       /\ FrequenciesAddUp(node.left)
       /\ FrequenciesAddUp(node.right)

\* The number of bits of the serialized tree at the head of the output of
\* Huffman::compress.
SerializedTreeBits == Len(PreOrder(tree, build.bits))

\* The leaves of the tree below node, each as <<symbol, path>>, the path
\* being the sequence of edges from the root: 0 for left, 1 for right.
RECURSIVE LeafPaths(_, _)
LeafPaths(node, path) ==
    IF Childless(node) THEN {<<node.data, path>>}
    ELSE LeafPaths(node.left, Append(path, 0))
         \cup LeafPaths(node.right, Append(path, 1))

\* The number a sequence of bits denotes, most significant bit first.
RECURSIVE BitsValue(_)
BitsValue(bs) ==
    IF bs = <<>> THEN 0
    ELSE 2 * BitsValue(SubSeq(bs, 1, Len(bs) - 1)) + bs[Len(bs)]

\* The code table the specification derives from a tree: per Leaf the path
\* as codeword and the depth as length, a root that is a Leaf getting the
\* codeword 0 of length 1.
PathCodeOf(root, w) ==
    LET p == (CHOOSE e \in LeafPaths(root, <<>>) : e[1] = w)[2]
    IN  IF p = <<>> THEN <<0, 1>> ELSE <<BitsValue(p), Len(p)>>

(***************************************************************************)
(* Claims                                                                  *)
(***************************************************************************)
\* C1: Huffman::decompress(Huffman::compress(S)) returns exactly S for every
\* nonempty S and every tie-break order of the heap: what decompress has
\* produced is always a prefix of S, and what it returns is S.
C1_HuffmanRoundTrip ==
    /\ pc \in {"decoding", "decompressed"} => IsPrefixOf(decompressed, input)
    /\ pc = "decompressed" => decompressed = input

\* C2: RLE::decompress(RLE::compress(S)) returns exactly S for every nonempty
\* S of words of every width, negative words and runs longer than MAX_COUNT
\* included.
C2_RLERoundTrip ==
    /\ pc = "decoded" => decoded = input
    /\ input # <<>> => pc # "undefined"

\* C3: a sequence of n >= 1 repeats of one symbol gives a tree that is a
\* single leaf and a 1-bit code, and decompress returns exactly n copies of
\* the symbol (never more than n).
C3_SingleSymbolRoundTrip ==
    (Cardinality(Distinct(input)) = 1 /\ pc \in {"compressed", "decoding", "decompressed"})
        => /\ isLeaf(tree)
           /\ code[input[1]][2] = 1
           /\ Len(decompressed) <= Len(input)
           /\ pc = "decompressed" => decompressed = input

\* C4: for a tree built from a sequence with at least two distinct symbols
\* the code table is prefix-free: no codeword is a prefix of the codeword of
\* another symbol.
C4_PrefixFree ==
    (pc = "compressed" /\ Cardinality(Distinct(input)) >= 2)
        => \A a \in DOMAIN code : \A b \in DOMAIN code :
              a # b => ~IsPrefixOf(Codeword(code, a), Codeword(code, b))

\* C4's case: a code table of three or more codewords of different lengths.
C4_Witness ==
    /\ pc = "compressed"
    /\ Cardinality(DOMAIN code) >= 3
    /\ \E a \in DOMAIN code : \E b \in DOMAIN code : code[a][2] < code[b][2]

\* C5: the tree fromCompressed rebuilds from the serialized tree has the code
\* table of the tree fromUncompressed built: the same symbols, each with the
\* same codeword and the same length.
C5_TreeSerializationRoundTrip ==
    pc \in {"decoding", "decompressed"}
        => /\ DOMAIN rcode = DOMAIN code
           /\ \A w \in DOMAIN code : rcode[w] = code[w]

\* C5's case: a rebuilt tree with inner nodes and a leaf for a negative word.
C5_Witness ==
    /\ pc = "decoding"
    /\ Cardinality(DOMAIN rcode) >= 3
    /\ \E w \in DOMAIN rcode : w < 0
    /\ \E w \in DOMAIN rcode : w > 0

\* C6: compress on an empty sequence fails with the condition EmptyInput, for
\* both codecs, without reading any element and without producing output.
C6_EmptyInputRejected ==
    (input = <<>> /\ pc # "start")
        => /\ outcome = "EmptyInput"
           /\ ~endRead
           /\ encoded = <<>>
           /\ compressed = <<>>

\* C7: Huffman::decompress on a bitstream that ends inside the serialized
\* tree or inside a walk fails with the condition TruncatedStream and never
\* reads a bit at or beyond the end of the bit source.
C7_TruncatedStreamRejected ==
    input # <<>>
        => /\ ~endRead
           /\ pc = "undefined" => outcome = "TruncatedStream"

\* C8 as stated: MAX_COUNT repeats of one symbol are emitted as the one pair
\* (MSB | MAX_COUNT, symbol), and MAX_COUNT + 1 repeats as two run-token
\* pairs.
C8_TwoRunPairs ==
    pc = "encoded"
        => /\ Repeats(MAX_COUNT(build.bits))
                => encoded = RunPair(MAX_COUNT(build.bits), input[1], build.bits)
           /\ Repeats(MAX_COUNT(build.bits) + 1)
                => /\ Len(encoded) = 4
                   /\ TopBitSet(encoded[1], build.bits)
                   /\ TopBitSet(encoded[3], build.bits)

\* C8, amended: MAX_COUNT repeats of one symbol are emitted as the one pair
\* (MSB | MAX_COUNT, symbol); MAX_COUNT + 1 repeats are emitted as that pair
\* followed by a second token for the last repeat, which is the bare symbol
\* when the symbol's top bit is clear and the pair (MSB | 1, symbol) when it
\* is set.
C8_MaxCountBoundary ==
    pc = "encoded"
        => /\ Repeats(MAX_COUNT(build.bits))
                => encoded = RunPair(MAX_COUNT(build.bits), input[1], build.bits)
           /\ Repeats(MAX_COUNT(build.bits) + 1)
                => encoded = RunPair(MAX_COUNT(build.bits), input[1], build.bits)
                             \o (IF TopBitSet(input[1], build.bits)
                                 THEN RunPair(1, input[1], build.bits)
                                 ELSE <<input[1]>>)

\* C8's case: MAX_COUNT + 1 repeats of a symbol whose top bit is clear have
\* been compressed.
C8_Witness ==
    /\ pc = "encoded"
    /\ Repeats(MAX_COUNT(build.bits) + 1)
    /\ ~TopBitSet(input[1], build.bits)
    /\ Len(encoded) = 3

\* C9: the output of RLE::compress read as tokens (a literal counts 1, a run
\* pair counts its count field) has counts that sum to |S|, and the tokens in
\* order cover S as consecutive segments, each of one repeated symbol.
C9_TokenAccounting ==
    pc = "encoded"
        => /\ FramedByTopBit(encoded, 1, build.bits)
           /\ TokenCountSum(encoded, 1, build.bits) = Len(input)
           /\ TokenExpansion(encoded, 1, build.bits) = input

\* C10: in the output of RLE::compress every token head with its MSB set is a
\* count marker followed by a value word inside the output, the output never
\* ends on a count marker, and RLE::decompress on it never dereferences the
\* end iterator.
C10_CountMarkerFollowed ==
    /\ pc = "encoded" => FramedByTopBit(encoded, 1, build.bits)
    /\ (input # <<>> /\ pc \in {"decoded", "undefined"}) => ~endRead

\* C11: in every run token RLE::compress emits the count field is between 1
\* and MAX_COUNT, the marker word is MSB | count within the width of the word
\* and clearing its top bit gives the count back; a run of more than
\* MAX_COUNT equal symbols is emitted as several tokens.
C11_CountFieldInRange ==
    pc = "encoded"
        => /\ encoded = Concat([i \in DOMAIN InputRuns |-> Emitted(InputRuns[i])])
           /\ \A i \in DOMAIN InputRuns :
                 /\ InputRuns[i].count \in 1..MAX_COUNT(build.bits)
                 /\ Len(Emitted(InputRuns[i])) = 2
                      => /\ TopBitSet(Emitted(InputRuns[i])[1], build.bits)
                         /\ ToUnsigned(Emitted(InputRuns[i])[1], build.bits)
                              - TopBit(build.bits) = InputRuns[i].count
                 /\ InputRuns[i].count >= 2 => Len(Emitted(InputRuns[i])) = 2
           /\ (\E n \in 1..Len(input) : Repeats(n) /\ n > MAX_COUNT(build.bits))
                 => Len(InputRuns) >= 2

\* C12: RLE::compress emits a pending run of length 1 as the bare symbol when
\* the symbol's top bit is clear and as the pair (MSB | run_count, symbol) in
\* every other case; the input of scenario 1 gives exactly Run(4, 5),
\* Run(2, 2), Literal(9).
C12_LiteralOrRunPair ==
    pc = "encoded"
        => /\ \A i \in DOMAIN InputRuns : Emitted(InputRuns[i]) = WireToken(InputRuns[i])
           /\ encoded = Concat([i \in DOMAIN InputRuns |-> WireToken(InputRuns[i])])
           /\ input = Scenario1(build.bits)
                 => encoded = RunPair(Scenario1Run(build.bits),
                                      Scenario1First(build.bits), build.bits)
                              \o RunPair(2, 2, build.bits)
                              \o <<Scenario1Last(build.bits)>>

\* C13: for every input of 10 symbols with the frequencies A = 5, B = 3,
\* C = 2 and every way the heap resolves the tie between the leaf A and the
\* merged node B + C, A gets a 1-bit code, B and C get 2-bit codes, and the
\* codewords written after the serialized tree take exactly 15 bits.
C13_Scenario2Payload ==
    (pc = "compressed" /\ Frequencies532)
        => /\ \A w \in Distinct(input) :
                 code[w][2] = IF Occurrences(w) = 5 THEN 1 ELSE 2
           /\ Len(compressed) - Len(treeRepr(tree, build.bits)) = 15

\* C13's case: scenario 2 compressed with the tie resolved so that the merged
\* node B + C is taken from the heap before the leaf A.
C13_Witness ==
    /\ pc = "compressed"
    /\ Frequencies532
    /\ ~isLeaf(tree.left)
    /\ isLeaf(tree.right)
    /\ Occurrences(tree.right.data) = 5

\* C14: the output of Huffman::compress starts with the tree serialized in
\* pre-order: a Leaf is the bit 1 and its symbol as exactly W bits, most
\* significant first (also for a symbol whose top bit is set), an Internal
\* node is the bit 0, its left subtree and then its right subtree; a tree
\* with k leaves takes exactly (2k - 1) + k * W bits.
C14_TreeReprPreOrder ==
    pc = "compressed"
        => LET k == LeafCount(tree)
               n == (2 * k - 1) + k * build.bits
           IN  /\ Len(compressed) >= n
               /\ SubSeq(compressed, 1, n) = PreOrder(tree, build.bits)
               /\ Len(PreOrder(tree, build.bits)) = n

\* C14's case: a serialized tree of three or more leaves, one of them a
\* symbol whose top bit is set, and an Internal node as left child of the root.
C14_Witness ==
    /\ pc = "compressed"
    /\ LeafCount(tree) >= 3
    /\ ~Childless(tree.left)
    /\ \E w \in DOMAIN code : TopBitSet(w, build.bits)
    /\ compressed[1] = 0

\* C15: the output of Huffman::compress(S) is the serialized tree followed by
\* the codeword of each symbol of S in the order of S, each written most
\* significant bit first with exactly its recorded length, and nothing else:
\* its length is |treeRepr| plus the sum of the code lengths of the symbols.
C15_CompressedLayout ==
    pc = "compressed"
        => /\ compressed = PreOrder(tree, build.bits)
                \o Concat([i \in DOMAIN input |->
                              Digits(code[input[i]][1], code[input[i]][2])])
           /\ Len(compressed) = Len(PreOrder(tree, build.bits))
                + Sum([i \in DOMAIN input |-> code[input[i]][2]])

\* C15's case: an input whose first and last symbol have codewords of
\* different lengths, one symbol occurring more than once.
C15_Witness ==
    /\ pc = "compressed"
    /\ Len(input) >= 4
    /\ code[input[1]][2] # code[input[Len(input)]][2]
    /\ code[input[1]][1] # 0
    /\ \E w \in Distinct(input) : Occurrences(w) >= 2

\* C16: every identifier is inactive until activated: a call of
\* LOG::write(message, os, id) writes the message if and only if the last
\* LOG::activate / LOG::deactivate call for id was an activate; activate(id)
\* and deactivate(id) change the state of no other identifier;
\* LOG::write(message, os) always writes; LOG::write with a list of
\* identifiers writes the message at most once.
C16_WriteIffActivated ==
    /\ \A t \in threads :
         thr[t].pc = "return"
            => /\ thr[t].op = "write" => thr[t].wrote = 1
               /\ thr[t].op = "write_id"
                    => thr[t].wrote = IF lastCall[thr[t].ids[1]] = "activate"
                                      THEN 1 ELSE 0
               /\ thr[t].op = "write_ids" => thr[t].wrote <= 1
    /\ (inst # 0 /\ \A t \in threads : thr[t].pc = "idle")
         => \A c \in CharCodes :
               ToChar(c, charSigned) \in DOMAIN active
                  => active[ToChar(c, charSigned)] = (lastCall[c] = "activate")

\* C17: under every interleaving of threads calling LOG's functions at most
\* one Log instance is ever constructed, a thread reads or writes inst, the
\* table of active identifiers or the stream only while it holds the mutex,
\* the mutex is held only by a thread inside such a section (which leaves it
\* without waiting), and no thread tries to lock the mutex while holding it.
C17_SingletonUnderMutex ==
    /\ constructed <= 1
    /\ inst \in {0, 1}
    /\ \A t \in threads :
         /\ thr[t].pc \in {"check", "construct", "body"} => mutex = t
         /\ thr[t].pc \in {"instance", "op"} => mutex # t
         /\ thr[t].pc \in {"op", "body", "return"} /\ thr[t].op # "write_ids" => inst # 0
    /\ mutex # 0 => /\ mutex \in threads
                     /\ thr[mutex].pc \in {"check", "construct", "body"}

\* C17's case: two threads make the first call at the same time: one is
\* constructing the instance while the other waits for the mutex in
\* Log::instance().
C17_Witness ==
    /\ inst = 0
    /\ \E t \in threads : \E u \in threads \ {t} :
         /\ thr[t].pc = "construct"
         /\ thr[u].pc = "instance"

\* C18: Huffman::decompress on the output of Huffman::compress terminates:
\* every walk reaches a Leaf without running off the bitstream and consumes
\* at least one bit, so that there are never more walks than bits after the
\* serialized tree, and the cursor ends exactly at the end of the bitstream.
C18_DecompressTerminates ==
    /\ pc \in {"decoding", "decompressed"}
         => /\ Len(decompressed) <= cursor - (SerializedTreeBits + 1)
            /\ cursor <= Len(stream) + 1
    /\ input # <<>> => pc # "undefined"

\* C19: for every tree built from a nonempty sequence, fromCompressed on a
\* bitstream that starts with the serialized tree returns the cursor exactly
\* |treeRepr| bits after the start, whatever follows the tree, and reads no
\* bit at or after the end of the bitstream.
C19_CursorAfterTree ==
    /\ (pc = "decoding" /\ decompressed = <<>>) => cursor = SerializedTreeBits + 1
    /\ (pc = "undefined" /\ input # <<>> /\ rtree = nullptr)
         => Len(stream) < SerializedTreeBits

\* C19's case: fromCompressed has returned from a tree of three or more
\* leaves, the codewords that follow it starting with a 1 (the framing bit
\* of a Leaf, were it read as part of the tree).
C19_Witness ==
    /\ pc = "decoding"
    /\ decompressed = <<>>
    /\ LeafCount(tree) >= 3
    /\ cursor <= Len(stream)
    /\ stream[cursor] = 1

\* C20: the tree makeTree builds from a nonempty sequence with k distinct
\* symbols, and the tree reconstructTree builds from a serialized tree, are
\* full binary trees; the tree of makeTree has one Leaf per distinct symbol,
\* with the symbol's number of occurrences as frequency (k leaves, k - 1
\* internal nodes), and the frequency of every internal node is the sum of
\* the frequencies of its two children.
C20_FullBinaryTree ==
    /\ pc \in {"compressed", "decoding", "decompressed"}
         => /\ FullBinary(tree)
            /\ LeafCount(tree) = Cardinality(Distinct(input))
            /\ InternalCount(tree) = Cardinality(Distinct(input)) - 1
            /\ LeafSet(tree) = {<<w, Occurrences(w)>> : w \in Distinct(input)}
            /\ FrequenciesAddUp(tree)
            /\ tree.frequency = Len(input)
    /\ pc \in {"decoding", "decompressed"}
         => /\ FullBinary(rtree)
            /\ LeafCount(rtree) = LeafCount(tree)
            /\ InternalCount(rtree) = InternalCount(tree)

\* C20's case: a tree of four leaves has been built and rebuilt.
C20_Witness ==
    /\ pc = "decoding"
    /\ LeafCount(tree) = 4
    /\ InternalCount(rtree) = 3

\* C21: makeCode records exactly one entry per Leaf: the root-to-leaf path
\* read with left = 0 and right = 1 as codeword and the depth of the Leaf as
\* length, a root that is itself a Leaf getting codeword 0 and length 1; the
\* table has exactly one entry per distinct symbol and every length is >= 1.
\* The same holds of the table made from the rebuilt tree.
C21_CodeIsPathAndDepth ==
    /\ pc \in {"compressed", "decoding", "decompressed"}
         => /\ DOMAIN code = Distinct(input)
            /\ Cardinality(LeafPaths(tree, <<>>)) = Cardinality(DOMAIN code)
            /\ \A w \in DOMAIN code :
                  /\ code[w] = PathCodeOf(tree, w)
                  /\ code[w][2] >= 1
    /\ pc \in {"decoding", "decompressed"}
         => /\ DOMAIN rcode = {e[1] : e \in LeafPaths(rtree, <<>>)}
            /\ \A w \in DOMAIN rcode : rcode[w] = PathCodeOf(rtree, w)

\* C21's case: a code table with a codeword of length 3 that ends in a 1 and
\* one of length 1.
C21_Witness ==
    /\ pc = "compressed"
    /\ \E w \in DOMAIN code : code[w][2] = 3 /\ code[w][1] % 2 = 1
    /\ \E w \in DOMAIN code : code[w][2] = 1

\* C22: RLE::decompress reads the tokens left to right: a word whose MSB is
\* set is a count (the word with the MSB cleared), the next word is appended
\* that many times and is not itself read as a token; any other word is
\* appended once; an empty token stream gives an empty sequence; the output
\* has as many words as there are literals plus the sum of the counts.
C22_DecompressByTokens ==
    /\ (pc = "decoded" /\ FramedByTopBit(encoded, 1, build.bits))
         => /\ decoded = TokenExpansion(encoded, 1, build.bits)
            /\ Len(decoded) = TokenCountSum(encoded, 1, build.bits)
    /\ encoded = <<>> => decoded = <<>> /\ pc # "undefined"
    /\ FramedByTopBit(encoded, 1, build.bits) => pc # "undefined"

\* C22's case: a stream of a literal, a run of two and a run of none has
\* been decompressed, a word with its top bit set being the repeated word.
C22_Witness ==
    /\ pc = "decoded"
    /\ Len(encoded) = 5
    /\ ~TopBitSet(encoded[1], build.bits)
    /\ encoded[2] = ToSigned(TopBit(build.bits) + 2, build.bits)
    /\ TopBitSet(encoded[3], build.bits)
    /\ encoded[4] = ToSigned(TopBit(build.bits), build.bits)
    /\ Len(decoded) = 3

\* The addresses of the nodes of the tree rooted at address p.
RECURSIVE Reach(_, _)
Reach(mem, p) ==
    IF p = 0 THEN {}
    ELSE {p} \cup Reach(mem, mem[p].left) \cup Reach(mem, mem[p].right)

\* The number of nodes met when walking the tree rooted at address p.
RECURSIVE Walked(_, _)
Walked(mem, p) ==
    IF p = 0 THEN 0 ELSE 1 + Walked(mem, mem[p].left) + Walked(mem, mem[p].right)

\* Shape and leaf symbols of the tree rooted at address p.
RECURSIVE ShapeAt(_, _)
ShapeAt(mem, p) ==
    IF p = 0 THEN nullptr
    ELSE IF mem[p].left = 0 /\ mem[p].right = 0 THEN [leaf |-> mem[p].data]
    ELSE [left |-> ShapeAt(mem, mem[p].left), right |-> ShapeAt(mem, mem[p].right)]

\* Shape and leaf symbols of a tree given as a value.
RECURSIVE ShapeOf(_)
ShapeOf(node) ==
    IF node = nullptr THEN nullptr
    ELSE IF isLeaf(node) THEN [leaf |-> node.data]
    ELSE [left |-> ShapeOf(node.left), right |-> ShapeOf(node.right)]

\* The nodes some living HuffmanTree object owns.
Owned == UNION {Reach(memory, roots[x]) : x \in DOMAIN roots}

\* C23: every copy of a HuffmanTree made inside fromCompressed and
\* Huffman::decompress has the shape and the leaf symbols of the tree
\* compress built and shares no node with another tree; no node is deleted
\* twice, the nodes of the living trees are not deleted, the nodes of a
\* destroyed tree are deleted exactly once, and when decompress has returned
\* every node has been deleted exactly once.
C23_CopiesShareNoNode ==
    /\ \A x \in DOMAIN roots :
          /\ ShapeAt(memory, roots[x]) = ShapeOf(tree)
          /\ Cardinality(Reach(memory, roots[x])) = Walked(memory, roots[x])
          /\ \A y \in DOMAIN roots \ {x} :
                Reach(memory, roots[x]) \cap Reach(memory, roots[y]) = {}
    /\ DOMAIN deletes = DOMAIN memory
    /\ \A p \in DOMAIN memory :
          /\ deletes[p] <= 1
          /\ deletes[p] = 0 <=> p \in Owned
    /\ lifetime = "done" => \A p \in DOMAIN memory : deletes[p] = 1
    /\ lifetime \in {"copied", "leaving", "done"}
         => Len(memory) = 3 * Walked(memory, 1)

\* C23's case: the local tree of fromCompressed, of at least five nodes, has
\* been destroyed after it was copied into the pair, and the pair's tree has
\* been copied into huffman_tree: two trees are alive.
C23_Witness ==
    /\ lifetime = "copied"
    /\ DOMAIN roots = {"res", "huffman_tree"}
    /\ Walked(memory, roots["res"]) >= 5
    /\ deletes[1] = 1
    /\ deletes[roots["res"]] = 0
    /\ deletes[roots["huffman_tree"]] = 0

\* C24: every call of decode made by Huffman::decompress on a stream that
\* Huffman::compress produced returns a cursor strictly ahead of the one it
\* was given, advanced by exactly the length the code table records for the
\* word it returns.
C24_DecodeAdvancesByLength ==
    [][(pc = "decoding" /\ stream = compressed /\ decompressed' # decompressed)
         => /\ cursor' > cursor
            /\ cursor' - cursor = rcode[decompressed'[Len(decompressed')]][2]]_vars

\* C25: in every tree makeTree can build, whichever way ties are broken, a
\* symbol that occurs strictly more often than another has no longer a
\* codeword.
C25_FrequentNotLonger ==
    pc = "compressed"
      => \A a \in DOMAIN code : \A b \in DOMAIN code :
            Occurrences(a) > Occurrences(b) => code[a][2] <= code[b][2]

\* C25's case: a code in which a more frequent symbol has a strictly shorter
\* codeword than a less frequent one, and in which two symbols of equal
\* frequency, the tie broken, have codewords of different lengths.
C25_Witness ==
    /\ pc = "compressed"
    /\ \E a \in DOMAIN code : \E b \in DOMAIN code :
          Occurrences(a) > Occurrences(b) /\ code[a][2] < code[b][2]
    /\ \E a \in DOMAIN code : \E b \in DOMAIN code :
          Occurrences(a) = Occurrences(b) /\ code[a][2] # code[b][2]

\* C26: a call LOG::write(message, os, {id1, ..., idn}) during which at
\* every moment at least one of the listed identifiers is active writes the
\* message, whatever other threads activate and deactivate meanwhile.
C26_ListWriteWhileCovered ==
    \A t \in threads :
       (thr[t].pc = "return" /\ thr[t].op = "write_ids" /\ covered[t])
          => thr[t].wrote = 1

\* The tokens of a framed T, read from index i: a count marker and the word
\* after it are a run of count copies of that word, any other word is a
\* literal.
RECURSIVE ReadTokens(_, _, _)
ReadTokens(T, i, b) ==
    IF i > Len(T) THEN <<>>
    ELSE IF TopBitSet(T[i], b)
         THEN <<[run |-> TRUE, count |-> ToUnsigned(T[i], b) - TopBit(b),
                 symbol |-> T[i + 1]]>> \o ReadTokens(T, i + 2, b)
         ELSE <<[run |-> FALSE, count |-> 1, symbol |-> T[i]]>>
              \o ReadTokens(T, i + 1, b)

\* The token is a run that was cut because its count reached MAX_COUNT.
CutAtMaxCount(token, b) == token.run /\ token.count = MAX_COUNT(b)

\* The index of the first input word the k-th of the tokens stands for.
FirstCovered(tokens, k) == 1 + Sum([j \in 1..(k - 1) |-> tokens[j].count])

\* C27: of two consecutive tokens of RLE::compress's output with the same
\* symbol the first is a run with count MAX_COUNT; every token stands for
\* consecutive input words equal to its symbol, and unless it was cut at
\* MAX_COUNT the input word after them, if any, is a different one.
C27_TokensAreMaximalRuns ==
    (pc = "encoded" /\ FramedByTopBit(encoded, 1, build.bits))
      => LET tokens == ReadTokens(encoded, 1, build.bits)
         IN  /\ \A k \in 1..(Len(tokens) - 1) :
                   tokens[k].symbol = tokens[k + 1].symbol
                      => CutAtMaxCount(tokens[k], build.bits)
             /\ FirstCovered(tokens, Len(tokens) + 1) = Len(input) + 1
             /\ \A k \in DOMAIN tokens :
                   LET first == FirstCovered(tokens, k)
                       after == first + tokens[k].count
                   IN  /\ \A j \in first..(after - 1) : input[j] = tokens[k].symbol
                       /\ (after <= Len(input) /\ ~CutAtMaxCount(tokens[k], build.bits))
                            => input[after] # tokens[k].symbol

====
